---- MODULE Spec2Model ----
(***************************************************************************)
(* Model of jina/types/routing/table.py: TargetPod and RoutingTable, thin  *)
(* wrappers over a protobuf body (RoutingTableProto) that holds            *)
(*   pods       : map<string, TargetPodProto>                              *)
(*   active_pod : string                                                   *)
(* Several RoutingTable objects may wrap the same body (reference          *)
(* construction) or a deep copy of it (copy construction).                 *)
(*                                                                         *)
(* The protobuf message map get-or-creates a slot on pods[name] and does   *)
(* not create one on "name in pods"; add_pod (lines 140-146) relies on     *)
(* exactly that pair of behaviours.                                        *)
(***************************************************************************)
EXTENDS Naturals, Integers, Sequences, FiniteSets, TLC

VARIABLES
    tables,   \* the RoutingTable objects: which body each one wraps, and how it was constructed
    store,    \* the protobuf bodies (_pb_body), by identity
    calls,    \* history: per body, the add_edge calls <<from, to>> applied to it, in call order
    last,     \* the last call made: operation, object, arguments, outcome
    ncalls    \* number of calls made so far (counted in SpecShare only)

vars == <<tables, store, calls, last, ncalls>>

----------------------------------------------------------------------------
(* Bounds and input sets *)

MaxEdges == 3          \* add_edge calls per table in Spec
MaxGraphEdges == 3     \* add_edge calls per table in SpecGraph
MaxShareEdges == 2     \* add_edge calls per table in SpecShare
MaxTables == 3         \* RoutingTable objects alive in SpecShare
MaxCalls == 5          \* calls made in a run of SpecShare

Names == {"A", "B"}
GraphNames == {"A", "B", "C"}
Addrs == {<<"h1", 1>>, <<"h2", 2>>}
OneAddr == {<<"h1", 1>>}

----------------------------------------------------------------------------
(* The protobuf messages *)

\* a freshly created TargetPodProto: proto3 defaults
EmptyTargetPod == [host |-> "", port |-> 0, out_edges |-> <<>>, expected_parts |-> 0]

\* jina_pb2.RoutingTableProto(): no pods, active_pod unset (the empty string)
EmptyRoutingTable == [pods |-> <<>>, active_pod |-> ""]

\* self.pods[pod] on the message map: the body after the access (get-or-create)
pods_getitem(pb, pod) ==
    IF pod \in DOMAIN pb.pods
    THEN pb
    ELSE [pb EXCEPT !.pods = (pod :> EmptyTargetPod) @@ pb.pods]

\* RoutingTable._get_target_pod: wraps self.pods[pod]; the body after the call
_get_target_pod(pb, pod) == pods_getitem(pb, pod)

\* variant: the out-edge list is kept free of duplicates
TargetPod_add_edge_dedup(pb, from_pod, to_pod) ==
    IF \E i \in 1..Len(pb.pods[from_pod].out_edges) : pb.pods[from_pod].out_edges[i] = to_pod
    THEN pb
    ELSE [pb EXCEPT !.pods[from_pod].out_edges = Append(@, to_pod)]

\* TargetPod.add_edge on the slot of from_pod
TargetPod_add_edge(pb, from_pod, to_pod) ==
    [pb EXCEPT !.pods[from_pod].out_edges = Append(@, to_pod)]

\* variant: the counter of the sending pod is raised instead of the receiving pod's
add_edge_counts_sender(pb, from_pod, to_pod) ==
    LET b1 == _get_target_pod(pb, from_pod)
        b2 == TargetPod_add_edge(b1, from_pod, to_pod)
        b3 == _get_target_pod(b2, to_pod)
    IN  [b3 EXCEPT !.pods[from_pod].expected_parts = @ + 1]

\* variant: the receiving pod is looked up without creating its slot
add_edge_strict_target(pb, from_pod, to_pod) ==
    LET b1 == _get_target_pod(pb, from_pod)
        b2 == TargetPod_add_edge(b1, from_pod, to_pod)
    IN  IF to_pod \in DOMAIN b2.pods
        THEN [b2 EXCEPT !.pods[to_pod].expected_parts = @ + 1]
        ELSE b2

\* variant: the edge is recorded in both directions
add_edge_both_ways(pb, from_pod, to_pod) ==
    LET b1 == _get_target_pod(pb, from_pod)
        b2 == TargetPod_add_edge(b1, from_pod, to_pod)
        b3 == _get_target_pod(b2, to_pod)
        b4 == TargetPod_add_edge(b3, to_pod, from_pod)
    IN  [b4 EXCEPT !.pods[to_pod].expected_parts = @ + 1]

\* RoutingTable.add_edge
add_edge(pb, from_pod, to_pod) ==
    LET b1 == _get_target_pod(pb, from_pod)
        b2 == TargetPod_add_edge(b1, from_pod, to_pod)
        b3 == _get_target_pod(b2, to_pod)
    IN  [b3 EXCEPT !.pods[to_pod].expected_parts = @ + 1]

\* variant: the address is written before the existence check
add_pod_late_check(pb, pod_name, host, port) ==
    LET b1 == pods_getitem(pb, pod_name)
    IN  [pb  |-> [b1 EXCEPT !.pods[pod_name].host = host,
                            !.pods[pod_name].port = port],
         err |-> IF pod_name \in DOMAIN pb.pods THEN "ValueError" ELSE ""]

\* RoutingTable.add_pod: the body after the call and the error raised, if any
add_pod(pb, pod_name, host, port) ==
    IF pod_name \in DOMAIN pb.pods
    THEN [pb |-> pb, err |-> "ValueError"]
    ELSE LET b1 == pods_getitem(pb, pod_name)
         IN  [pb  |-> [b1 EXCEPT !.pods[pod_name].host = host,
                                 !.pods[pod_name].port = port],
              err |-> ""]

\* variant: the setter looks the name up in pods, which creates its slot
set_active_pod_touches_pods(pb, pod_name) ==
    [pods_getitem(pb, pod_name) EXCEPT !.active_pod = pod_name]

\* active_pod getter
get_active_pod(pb) == pb.active_pod

\* active_pod setter
set_active_pod(pb, pod_name) == [pb EXCEPT !.active_pod = pod_name]

\* RoutingTable._get_out_edges: the list read (the slot is get-or-created)
_get_out_edges(pb, pod) == _get_target_pod(pb, pod).pods[pod].out_edges

\* active_target_pod: the body after the read and the descriptor returned
active_target_pod(pb) ==
    LET b1 == pods_getitem(pb, pb.active_pod)
    IN  [pb |-> b1, pod |-> b1.pods[pb.active_pod]]

----------------------------------------------------------------------------
(* is_acyclic *)

RECURSIVE _topological_sort_pod(_, _, _)
RECURSIVE sort_out_pods(_, _, _, _)

\* the loop of lines 232-234 from index i on; st = [visited, stack]
sort_out_pods(pb, outs, i, st) ==
    IF i > Len(outs)
    THEN st
    ELSE sort_out_pods(pb, outs, i + 1,
             IF outs[i] \in st.visited THEN st
             ELSE _topological_sort_pod(pb, outs[i], st))

_topological_sort_pod(pb, pod, st) ==
    LET s1 == [st EXCEPT !.visited = @ \cup {pod}]
        s2 == sort_out_pods(pb, _get_out_edges(pb, pod), 1, s1)
    IN  [s2 EXCEPT !.stack = Append(@, pod)]

RECURSIVE sort_pods_unguarded(_, _, _, _)
\* variant: the loop over the keys does not test visited
sort_pods_unguarded(pb, order, i, st) ==
    IF i > Len(order)
    THEN st
    ELSE sort_pods_unguarded(pb, order, i + 1, _topological_sort_pod(pb, order[i], st))

RECURSIVE sort_pods(_, _, _, _)
\* the loop of lines 223-225 over the keys of pods in iteration order `order`
sort_pods(pb, order, i, st) ==
    IF i > Len(order)
    THEN st
    ELSE sort_pods(pb, order, i + 1,
             IF order[i] \in st.visited THEN st
             ELSE _topological_sort_pod(pb, order[i], st))

Reverse(s) == [i \in 1..Len(s) |-> s[Len(s) + 1 - i]]

\* variant: the stack is returned without being reversed
_topological_sort_unreversed(pb, order) ==
    sort_pods(pb, order, 1, [visited |-> {}, stack |-> <<>>]).stack

_topological_sort(pb, order) ==
    Reverse(sort_pods(pb, order, 1, [visited |-> {}, stack |-> <<>>]).stack)

\* position_lookup[pod]
position_lookup(sorting, pod) == CHOOSE p \in 1..Len(sorting) : sorting[p] = pod

\* variant: only the first out-edge of every pod is compared
is_acyclic_first_edge_only(pb, order) ==
    LET topological_sorting == _topological_sort(pb, order)
    IN  \A f \in 1..Len(topological_sorting) :
          LET first == topological_sorting[f]
              outs  == _get_out_edges(pb, first)
          IN  \A s \in 1..Len(outs) :
                s = 1 => ~ (position_lookup(topological_sorting, first)
                              > position_lookup(topological_sorting, outs[s]))

is_acyclic(pb, order) ==
    LET topological_sorting == _topological_sort(pb, order)
    IN  \A f \in 1..Len(topological_sorting) :
          LET first == topological_sorting[f]
              outs  == _get_out_edges(pb, first)
          IN  \A s \in 1..Len(outs) :
                ~ (position_lookup(topological_sorting, first)
                     > position_lookup(topological_sorting, outs[s]))

\* the orders in which "for pod in self.pods" may yield the keys
KeyOrders(pb) ==
    LET K == DOMAIN pb.pods
    IN  {o \in [1..Cardinality(K) -> K] : \A i, j \in 1..Cardinality(K) : o[i] = o[j] => i = j}

----------------------------------------------------------------------------
(* RoutingTable objects over bodies *)

Handles == 1..Len(tables)
Body(h) == store[tables[h].pb]

NoCall == [op |-> "none", h |-> 0, args |-> <<>>, err |-> "",
           acyclic |-> FALSE, targets |-> <<>>, pod |-> EmptyTargetPod]

\* variant: the copy flag is ignored and the body is always shared
RoutingTable_init_always_shares(ts, st, graph, copy) ==
    [tables |-> Append(ts, [pb |-> ts[graph].pb, kind |-> IF copy THEN "copy" ELSE "ref",
                            src |-> graph, first |-> 0]),
     store  |-> st]

\* variant: the body is always copied, also without the copy flag
RoutingTable_init_always_copies(ts, st, graph, copy) ==
    [tables |-> Append(ts, [pb |-> Len(st) + 1, kind |-> IF copy THEN "copy" ELSE "ref",
                            src |-> graph, first |-> 0]),
     store  |-> Append(st, st[ts[graph].pb])]

\* variant: the copy takes the addresses and edges but starts its counters at zero
RoutingTable_init_resets_parts(ts, st, graph, copy) ==
    IF copy
    THEN [tables |-> Append(ts, [pb |-> Len(st) + 1, kind |-> "copy", src |-> graph, first |-> 0]),
          store  |-> Append(st, [st[ts[graph].pb] EXCEPT !.pods =
                                    [n \in DOMAIN @ |-> [@[n] EXCEPT !.expected_parts = 0]]])]
    ELSE [tables |-> Append(ts, [pb |-> ts[graph].pb, kind |-> "ref", src |-> graph, first |-> 0]),
          store  |-> st]

\* RoutingTable.__init__(graph, copy) for graph a RoutingTable: the new object is the
\* last of tables; it wraps a fresh body holding a copy (CopyFrom), or graph's own body
RoutingTable_init(ts, st, graph, copy) ==
    IF copy
    THEN [tables |-> Append(ts, [pb |-> Len(st) + 1, kind |-> "copy", src |-> graph, first |-> 0]),
          store  |-> Append(st, st[ts[graph].pb])]
    ELSE [tables |-> Append(ts, [pb |-> ts[graph].pb, kind |-> "ref", src |-> graph, first |-> 0]),
          store  |-> st]

\* the types RoutingTable.__init__ has a branch for, besides RoutingTable itself and
\* its RoutingTableProto body (both modelled by RoutingTable_init)
DecodedTypes == {"dict", "str", "bytes"}

\* inputs of RoutingTable.__init__ that are not tables: None, an int, and for each decoded
\* type the encoding of the empty table ({}, "{}", b"") and a malformed payload
Inputs ==
    {[type |-> "NoneType", wellformed |-> TRUE], [type |-> "int", wellformed |-> TRUE]}
        \cup [type : DecodedTypes, wellformed : BOOLEAN]

\* the exception raised inside the try block of lines 99-118, "" when none is
raised_in_try(graph) ==
    IF graph.type \in DecodedTypes
    THEN IF graph.wellformed THEN "" ELSE "DecodeError"
    ELSE IF graph.type # "NoneType" THEN "ValueError" ELSE ""

\* variant: the exception raised in the try block reaches the caller as it is
RoutingTable_init_input_raw_error(ts, st, graph) ==
    IF raised_in_try(graph) # ""
    THEN [tables |-> ts, store |-> st, err |-> raised_in_try(graph)]
    ELSE [tables |-> Append(ts, [pb |-> Len(st) + 1, kind |-> "new", src |-> 0, first |-> 0]),
          store  |-> Append(st, EmptyRoutingTable),
          err    |-> ""]

\* RoutingTable.__init__(graph) for graph not a table: a fresh body (line 98), filled by
\* the decoder; every exception is re-raised as BadRequestType and no object results
RoutingTable_init_input(ts, st, graph) ==
    IF raised_in_try(graph) # ""
    THEN [tables |-> ts, store |-> st, err |-> "BadRequestType"]
    ELSE [tables |-> Append(ts, [pb |-> Len(st) + 1, kind |-> "new", src |-> 0, first |-> 0]),
          store  |-> Append(st, EmptyRoutingTable),
          err    |-> ""]

RECURSIVE next_targets_loop_one_copy(_, _, _, _, _)
RECURSIVE next_targets_loop(_, _, _, _, _)
\* variant: one copy is made for the first out-edge and every later snapshot wraps it
next_targets_loop_one_copy(w, h, outs, i, targets) ==
    IF i > Len(outs)
    THEN [tables |-> w.tables, store |-> w.store, targets |-> targets]
    ELSE LET w1 == IF targets = <<>>
                   THEN RoutingTable_init(w.tables, w.store, h, TRUE)
                   ELSE RoutingTable_init(w.tables, w.store, targets[1], FALSE)
             new_graph == Len(w1.tables)
             first == IF targets = <<>> THEN new_graph ELSE targets[1]
             w2 == [tables |-> [w1.tables EXCEPT ![new_graph].kind = "next",
                                                 ![new_graph].src = h,
                                                 ![new_graph].first = first],
                    store  |-> [w1.store EXCEPT ![w1.tables[new_graph].pb] =
                                                    set_active_pod(@, outs[i])]]
         IN  next_targets_loop_one_copy(w2, h, outs, i + 1, Append(targets, new_graph))

\* the loop of lines 190-193 from index i on; w = [tables, store], targets the list so far
next_targets_loop(w, h, outs, i, targets) ==
    IF i > Len(outs)
    THEN [tables |-> w.tables, store |-> w.store, targets |-> targets]
    ELSE LET w1 == RoutingTable_init(w.tables, w.store, h, TRUE)
             new_graph == Len(w1.tables)
             first == IF targets = <<>> THEN new_graph ELSE targets[1]
             w2 == [tables |-> [w1.tables EXCEPT ![new_graph].kind = "next",
                                                 ![new_graph].first = first],
                    store  |-> [w1.store EXCEPT ![w1.tables[new_graph].pb] =
                                                    set_active_pod(@, outs[i])]]
         IN  next_targets_loop(w2, h, outs, i + 1, Append(targets, new_graph))

\* variant: the copies keep the active_pod of the source
get_next_targets_keeps_active(ts, st, h) ==
    LET pb   == st[ts[h].pb]
        b1   == _get_target_pod(pb, pb.active_pod)
        outs == _get_out_edges(pb, pb.active_pod)
    IN  next_targets_loop([tables |-> ts, store |-> [st EXCEPT ![ts[h].pb] = b1]],
                          h, [i \in 1..Len(outs) |-> pb.active_pod], 1, <<>>)

\* RoutingTable.get_next_targets on object h: the objects, the bodies and the list returned
get_next_targets(ts, st, h) ==
    LET pb   == st[ts[h].pb]
        b1   == _get_target_pod(pb, pb.active_pod)
        outs == _get_out_edges(pb, pb.active_pod)
    IN  next_targets_loop([tables |-> ts, store |-> [st EXCEPT ![ts[h].pb] = b1]],
                          h, outs, 1, <<>>)

Init ==
    /\ tables = <<[pb |-> 1, kind |-> "new", src |-> 0, first |-> 0]>>
    /\ store = <<EmptyRoutingTable>>
    /\ calls = << <<>> >>
    /\ last = NoCall
    /\ ncalls = 0

AddPod(h, pod_name, addr) ==
    LET r == add_pod(Body(h), pod_name, addr[1], addr[2])
    IN  /\ store' = [store EXCEPT ![tables[h].pb] = r.pb]
        /\ last' = [NoCall EXCEPT !.op = "add_pod", !.h = h,
                                  !.args = <<pod_name>>, !.err = r.err]
        /\ UNCHANGED <<tables, calls>>

AddEdge(h, from_pod, to_pod, maxEdges) ==
    /\ Len(calls[tables[h].pb]) < maxEdges
    /\ store' = [store EXCEPT ![tables[h].pb] = add_edge(Body(h), from_pod, to_pod)]
    /\ calls' = [calls EXCEPT ![tables[h].pb] = Append(@, <<from_pod, to_pod>>)]
    /\ last' = [NoCall EXCEPT !.op = "add_edge", !.h = h, !.args = <<from_pod, to_pod>>]
    /\ UNCHANGED tables

SetActivePod(h, pod_name) ==
    /\ store' = [store EXCEPT ![tables[h].pb] = set_active_pod(Body(h), pod_name)]
    /\ last' = [NoCall EXCEPT !.op = "set_active_pod", !.h = h, !.args = <<pod_name>>]
    /\ UNCHANGED <<tables, calls>>

ActiveTargetPod(h) ==
    LET r == active_target_pod(Body(h))
    IN  /\ store' = [store EXCEPT ![tables[h].pb] = r.pb]
        /\ last' = [NoCall EXCEPT !.op = "active_target_pod", !.h = h, !.pod = r.pod]
        /\ UNCHANGED <<tables, calls>>

IsAcyclic(h) ==
    \E order \in KeyOrders(Body(h)) :
        /\ last' = [NoCall EXCEPT !.op = "is_acyclic", !.h = h,
                                  !.acyclic = is_acyclic(Body(h), order)]
        /\ UNCHANGED <<tables, store, calls>>

\* RoutingTable(graph, copy): bodies created by a call start with the history of the
\* body they were copied from
Construct(h, copy) ==
    LET r == RoutingTable_init(tables, store, h, copy)
    IN  /\ Len(tables) < MaxTables
        /\ tables' = r.tables
        /\ store' = r.store
        /\ calls' = [b \in 1..Len(r.store) |->
                        IF b <= Len(store) THEN calls[b] ELSE calls[tables[h].pb]]
        /\ last' = [NoCall EXCEPT !.op = "init", !.h = h, !.targets = <<Len(r.tables)>>]

GetNextTargets(h) ==
    LET r == get_next_targets(tables, store, h)
    IN  /\ Len(tables) + Len(_get_out_edges(Body(h), Body(h).active_pod)) <= MaxTables
        /\ tables' = r.tables
        /\ store' = r.store
        /\ calls' = [b \in 1..Len(r.store) |->
                        IF b <= Len(store) THEN calls[b] ELSE calls[tables[h].pb]]
        /\ last' = [NoCall EXCEPT !.op = "get_next_targets", !.h = h, !.targets = r.targets]

\* RoutingTable(graph) for graph not a table
ConstructInput(graph) ==
    LET r == RoutingTable_init_input(tables, store, graph)
    IN  /\ Len(tables) < MaxTables
        /\ tables' = r.tables
        /\ store' = r.store
        /\ calls' = [b \in 1..Len(r.store) |-> IF b <= Len(store) THEN calls[b] ELSE <<>>]
        /\ last' = [NoCall EXCEPT !.op = "init", !.args = <<graph.type>>, !.err = r.err,
                                  !.targets = IF r.err = "" THEN <<Len(r.tables)>> ELSE <<>>]

Uncounted == UNCHANGED ncalls
Counted == ncalls < MaxCalls /\ ncalls' = ncalls + 1

Next ==
    \E h \in Handles :
        \/ \E n \in Names, a \in Addrs : AddPod(h, n, a) /\ Uncounted
        \/ \E f \in Names, t \in Names : AddEdge(h, f, t, MaxEdges) /\ Uncounted
        \/ \E n \in Names : SetActivePod(h, n) /\ Uncounted
        \/ ActiveTargetPod(h) /\ Uncounted
        \/ IsAcyclic(h) /\ Uncounted

Spec == Init /\ [][Next]_vars

\* one table over three names: the graphs is_acyclic is asked about
NextGraph ==
    \E h \in Handles :
        \/ \E n \in GraphNames, a \in OneAddr : AddPod(h, n, a) /\ Uncounted
        \/ \E f \in GraphNames, t \in GraphNames : AddEdge(h, f, t, MaxGraphEdges) /\ Uncounted
        \/ IsAcyclic(h) /\ Uncounted

SpecGraph == Init /\ [][NextGraph]_vars

\* several RoutingTable objects: reference and copy construction, next-hop snapshots
NextShare ==
    \E h \in Handles :
        \/ \E n \in Names, a \in OneAddr : Counted /\ AddPod(h, n, a)
        \/ \E f \in Names, t \in Names : Counted /\ AddEdge(h, f, t, MaxShareEdges)
        \/ \E n \in Names : Counted /\ SetActivePod(h, n)
        \/ \E copy \in BOOLEAN : Counted /\ Construct(h, copy)
        \/ Counted /\ GetNextTargets(h)

SpecShare == Init /\ [][NextShare]_vars

\* construction from inputs that are not tables, next to calls on the tables made
NextInput ==
    \/ \E graph \in Inputs : Counted /\ ConstructInput(graph)
    \/ \E h \in Handles :
          \/ \E n \in Names, a \in OneAddr : Counted /\ AddPod(h, n, a)
          \/ \E n \in Names : Counted /\ SetActivePod(h, n)

SpecInput == Init /\ [][NextInput]_vars

----------------------------------------------------------------------------
(* Observations used by the properties *)

\* what a caller can read through object h: pods (keys, addresses, out_edges,
\* expected_parts) and active_pod
Obs(h) == store[tables[h].pb]
ObsNext(h) == store'[tables'[h].pb]

Keys(pb) == DOMAIN pb.pods
ExpectedParts(pb, n) == IF n \in Keys(pb) THEN pb.pods[n].expected_parts ELSE 0
OutEdges(pb, n) == IF n \in Keys(pb) THEN pb.pods[n].out_edges ELSE <<>>

AllNames == GraphNames \cup {""}

\* the "to" arguments of the calls in cs whose "from" argument was n, in call order
ToArgsFrom(cs, n) ==
    LET sel == SelectSeq(cs, LAMBDA c : c[1] = n)
    IN  [i \in 1..Len(sel) |-> sel[i][2]]

\* the number of calls in cs whose "to" argument was n
CallsTo(cs, n) == Len(SelectSeq(cs, LAMBDA c : c[2] = n))

MutatingOps == {"add_pod", "add_edge", "set_active_pod"}

\* the edge relation of a table and its directed cycles
EdgeRel(pb) == {e \in Keys(pb) \X AllNames :
                   \E i \in 1..Len(pb.pods[e[1]].out_edges) : pb.pods[e[1]].out_edges[i] = e[2]}

RECURSIVE ReachFrom(_, _, _)
\* the nodes reachable from the set S by at least one edge, S reached so far being acc
ReachFrom(E, S, acc) ==
    LET nxt == {e[2] : e \in {d \in E : d[1] \in S}}
    IN  IF nxt \subseteq acc THEN acc ELSE ReachFrom(E, nxt \ acc, acc \cup nxt)

HasCycle(pb) == \E n \in Keys(pb) : n \in ReachFrom(EdgeRel(pb), {n}, {})

----------------------------------------------------------------------------
(* Properties *)

\* C1: add_pod with a name that is already a key of pods raises the duplicate-node
\* error and leaves every table unchanged (keys, addresses, out_edges,
\* expected_parts, active_pod).
C1_DuplicateAddPodLeavesTable ==
    [][\A h \in Handles :
          (last'.op = "add_pod" /\ last'.h = h /\ last'.args[1] \in Keys(Obs(h)))
              => (last'.err = "ValueError" /\ store' = store /\ tables' = tables)]_vars

C1_Witness ==
    /\ last.op = "add_pod"
    /\ last.err = "ValueError"
    /\ Obs(last.h).pods[last.args[1]].host = "h1"

\* C2: expected_parts of every node equals the number of add_edge calls made on the
\* table whose "to" argument was that node.
C2_ExpectedPartsCountsCalls ==
    \A h \in Handles : \A n \in AllNames :
        ExpectedParts(Obs(h), n) = CallsTo(calls[tables[h].pb], n)

C2_Witness ==
    /\ "A" \in Keys(Obs(1))
    /\ Obs(1).pods["A"].expected_parts = 3
    /\ \E i \in 1..Len(calls[1]) : calls[1][i] = <<"A", "A">>

\* C3: out_edges of every node is the sequence of "to" arguments of the add_edge
\* calls whose "from" argument was that node, in call order, duplicates kept.
C3_OutEdgesInCallOrder ==
    \A h \in Handles : \A n \in AllNames :
        OutEdges(Obs(h), n) = ToArgsFrom(calls[tables[h].pb], n)

C3_Witness ==
    /\ "A" \in Keys(Obs(1))
    /\ Obs(1).pods["A"].out_edges = <<"B", "A", "B">>

\* g and h are a table and a copy constructed from it with copy=True
CopyPair(g, h) ==
    \/ tables[g].kind = "copy" /\ tables[g].src = h
    \/ tables[h].kind = "copy" /\ tables[h].src = g

\* C4: a table constructed with copy=True starts equal to its source, and afterwards
\* set-active_pod, add_pod and add_edge through either of the two leave what is read
\* through the other unchanged.
C4_CopyIsIndependent ==
    [][/\ (last'.op = "init" /\ tables'[Len(tables')].kind = "copy")
              => /\ ObsNext(Len(tables')) = Obs(last'.h)
                 /\ \A g \in Handles : ObsNext(g) = Obs(g)
       /\ \A h \in Handles : \A g \in Handles :
              (last'.op \in MutatingOps /\ last'.h = h /\ CopyPair(g, h))
                  => ObsNext(g) = Obs(g)]_vars

C4_Witness ==
    \E g \in Handles : \E h \in Handles :
        /\ CopyPair(g, h)
        /\ last.op = "add_edge"
        /\ last.h = h
        /\ tables[h].kind = "copy"
        /\ Obs(g) # Obs(h)
        /\ Obs(g).pods # <<>>

\* C5: when active_pod is a key of pods, get_next_targets returns one table per
\* out-edge of the active node, in list order; the i-th has active_pod equal to the
\* i-th out-edge and pods equal to the source's at call time.
C5_NextTargetsPerOutEdge ==
    [][\A h \in Handles :
          (last'.op = "get_next_targets" /\ last'.h = h
             /\ Obs(h).active_pod \in Keys(Obs(h)))
              => LET outs == Obs(h).pods[Obs(h).active_pod].out_edges
                 IN  /\ Len(last'.targets) = Len(outs)
                     /\ \A i \in 1..Len(outs) :
                          /\ last'.targets[i] \in 1..Len(tables')
                          /\ ObsNext(last'.targets[i]).active_pod = outs[i]
                          /\ ObsNext(last'.targets[i]).pods = Obs(h).pods]_vars

C5_Witness ==
    /\ last.op = "get_next_targets"
    /\ Len(last.targets) = 2
    /\ Obs(last.targets[1]).active_pod = "B"
    /\ Obs(last.targets[2]).active_pod = "A"

\* g and h are two snapshots returned by one get_next_targets call, or a snapshot
\* and the table the call was made on
NextHopRelated(g, h) ==
    \/ g # h /\ tables[g].kind = "next" /\ tables[h].kind = "next"
             /\ tables[g].first = tables[h].first
    \/ tables[g].kind = "next" /\ tables[g].src = h
    \/ tables[h].kind = "next" /\ tables[h].src = g

C7_MissingActivePodFails ==
    [][\A h \in Handles :
          (last'.op = "active_target_pod" /\ last'.h = h
             /\ Obs(h).active_pod \notin Keys(Obs(h)))
              => last'.err # ""]_vars

\* C8: on a table whose edge relation has no directed cycle, is_acyclic returns
\* True for every order in which the keys of pods are iterated.
C8_DagIsAcyclic ==
    (last.op = "is_acyclic" /\ ~ HasCycle(Obs(last.h))) => last.acyclic

C8_Witness ==
    /\ last.op = "is_acyclic"
    /\ last.acyclic
    /\ calls[1] = << <<"B", "C">>, <<"A", "B">> >>
    /\ Keys(Obs(1)) = {"A", "B", "C"}

\* C9: on a table whose edge relation has a directed cycle of any length,
\* is_acyclic returns False.
C9_CycleIsNotAcyclic ==
    (last.op = "is_acyclic" /\ HasCycle(Obs(last.h))) => ~ last.acyclic

\* C10: a table constructed from another without copy semantics reads the same
\* state as that other table, whatever was done through either.
C10_ReferenceAliases ==
    \A h \in Handles : tables[h].kind = "ref" => Obs(h) = Obs(tables[h].src)

C10_Witness ==
    \E h \in Handles :
        /\ tables[h].kind = "ref"
        /\ last.op = "add_edge"
        /\ last.h \in {h, tables[h].src}
        /\ Obs(h).active_pod # ""

\* C11: setting active_pod to any name, a key of pods or not, succeeds; the getter
\* then returns that name and pods is unchanged.
C11_SetActivePodOnlySetsName ==
    [][\A h \in Handles :
          (last'.op = "set_active_pod" /\ last'.h = h)
              => /\ last'.err = ""
                 /\ get_active_pod(ObsNext(h)) = last'.args[1]
                 /\ ObsNext(h).pods = Obs(h).pods
                 /\ tables' = tables]_vars

C11_Witness ==
    /\ last.op = "set_active_pod"
    /\ get_active_pod(Obs(last.h)) = "B"
    /\ Keys(Obs(last.h)) = {"A"}

SupportedTypes == {"NoneType", "RoutingTable", "RoutingTableProto"} \cup DecodedTypes

\* C12: construction from an input of an unsupported type (a number) fails with
\* BadRequestType and makes no table; construction without input succeeds and gives
\* a table with no pods and active_pod unset.
C12_BadInputAndEmptyConstruction ==
    [][(last'.op = "init" /\ last'.h = 0)
          => /\ last'.args[1] \notin SupportedTypes
                  => (last'.err = "BadRequestType" /\ tables' = tables /\ store' = store)
             /\ last'.args[1] = "NoneType"
                  => /\ last'.err = ""
                     /\ Len(tables') = Len(tables) + 1
                     /\ last'.targets = <<Len(tables')>>
                     /\ Keys(ObsNext(Len(tables'))) = {}
                     /\ get_active_pod(ObsNext(Len(tables'))) = ""
                     /\ \A g \in Handles : ObsNext(g) = Obs(g)]_vars

C12_Witness ==
    /\ last.op = "init"
    /\ last.args = <<"int">>
    /\ last.err = "BadRequestType"
    /\ \E h \in Handles : tables[h].kind = "new" /\ h > 1 /\ Keys(Obs(h)) = {}

\* the number of times pod occurs in the sequence s
Occurrences(s, pod) == Cardinality({i \in 1..Len(s) : s[i] = pod})

\* C13: on every table, cyclic or not, the topological sort terminates for every
\* iteration order of the keys and returns an ordering that holds every key of pods
\* exactly once (each node is entered, and so appended, once) and nothing else.
C13_SortIsPermutationOfKeys ==
    \A h \in Handles : \A order \in KeyOrders(Obs(h)) :
        LET sorting == _topological_sort(Obs(h), order)
        IN  /\ Len(sorting) = Cardinality(Keys(Obs(h)))
            /\ \A pod \in Keys(Obs(h)) : Occurrences(sorting, pod) = 1

C13_Witness ==
    /\ last.op = "is_acyclic"
    /\ Keys(Obs(1)) = {"A", "B", "C"}
    /\ calls[1] = << <<"A", "B">>, <<"B", "A">>, <<"C", "C">> >>

\* the descriptor read under name n, the proto3 defaults when n is not a key
PodOrEmpty(pb, n) == IF n \in Keys(pb) THEN pb.pods[n] ELSE EmptyTargetPod

\* C14: add_edge(from, to) never fails; it creates an empty slot for each of from and
\* to that is not yet a key, appends to at the end of from's out_edges and raises to's
\* expected_parts by one; active_pod, every host and port, and the out_edges and
\* expected_parts of every other node are unchanged.
C14_AddEdgeExactEffect ==
    [][\A h \in Handles :
          (last'.op = "add_edge" /\ last'.h = h)
              => LET from_pod == last'.args[1]
                     to_pod   == last'.args[2]
                     old      == Obs(h)
                     new      == ObsNext(h)
                 IN  /\ last'.err = ""
                     /\ tables' = tables
                     /\ new.active_pod = old.active_pod
                     /\ Keys(new) = Keys(old) \cup {from_pod, to_pod}
                     /\ \A n \in Keys(new) :
                          /\ new.pods[n].host = PodOrEmpty(old, n).host
                          /\ new.pods[n].port = PodOrEmpty(old, n).port
                          /\ new.pods[n].out_edges =
                                 IF n = from_pod
                                 THEN Append(PodOrEmpty(old, n).out_edges, to_pod)
                                 ELSE PodOrEmpty(old, n).out_edges
                          /\ new.pods[n].expected_parts =
                                 IF n = to_pod
                                 THEN PodOrEmpty(old, n).expected_parts + 1
                                 ELSE PodOrEmpty(old, n).expected_parts]_vars

C14_Witness ==
    /\ last.op = "add_edge"
    /\ last.args = <<"B", "B">>
    /\ Keys(Obs(last.h)) = {"A", "B"}
    /\ Obs(last.h).pods["A"].host = "h2"
    /\ Obs(last.h).pods["B"] = [host |-> "", port |-> 0, out_edges |-> <<"B">>,
                                 expected_parts |-> 1]

\* a directed cycle through at least two distinct nodes
HasCycleOfTwo(pb) ==
    \E n \in Keys(pb) : \E m \in Keys(pb) :
        /\ n # m
        /\ m \in ReachFrom(EdgeRel(pb), {n}, {})
        /\ n \in ReachFrom(EdgeRel(pb), {m}, {})

\* C15: on a table with a directed cycle through at least two distinct nodes,
\* is_acyclic returns False for every order in which the keys of pods are iterated.
C15_CycleOfTwoIsReported ==
    (last.op = "is_acyclic" /\ HasCycleOfTwo(Obs(last.h))) => ~ last.acyclic

C15_Witness ==
    /\ last.op = "is_acyclic"
    /\ ~ last.acyclic
    /\ calls[1] = << <<"B", "C">>, <<"B", "A">>, <<"A", "B">> >>

\* the places <<node, index>> of the out_edges lists of pb that hold the name n
EdgePlaces(pb, n) ==
    UNION {{<<k, i>> : i \in {j \in 1..Len(pb.pods[k].out_edges) : pb.pods[k].out_edges[j] = n}}
             : k \in Keys(pb)}

RECURSIVE SumOver(_, _, _)
\* the sum of F(pb, k) over the names k in S
SumOver(F(_, _), pb, S) ==
    IF S = {} THEN 0
    ELSE LET k == CHOOSE x \in S : TRUE
         IN  F(pb, k) + SumOver(F, pb, S \ {k})

OutDegree(pb, n) == Len(pb.pods[n].out_edges)

\* C16: in the table and in every copy and snapshot, every name that occurs in some
\* node's out_edges is a key of pods.
C16_OutEdgesNameKeys ==
    \A h \in Handles : \A k \in Keys(Obs(h)) :
        \A i \in 1..Len(Obs(h).pods[k].out_edges) :
            Obs(h).pods[k].out_edges[i] \in Keys(Obs(h))

C16_Witness ==
    \E h \in Handles :
        /\ tables[h].kind = "next"
        /\ last.op = "add_edge"
        /\ last.h = h
        /\ Obs(h).pods # Obs(tables[h].src).pods

\* C17: in the table and in every copy and snapshot, expected_parts of every node
\* equals the number of occurrences of its name in the out_edges lists of the table,
\* and the expected_parts of all nodes add up to the number of out-edges.
C17_ExpectedPartsMatchEdges ==
    \A h \in Handles :
        /\ \A n \in AllNames :
              ExpectedParts(Obs(h), n) = Cardinality(EdgePlaces(Obs(h), n))
        /\ SumOver(ExpectedParts, Obs(h), Keys(Obs(h)))
              = SumOver(OutDegree, Obs(h), Keys(Obs(h)))

C17_Witness ==
    \E h \in Handles :
        /\ tables[h].kind \in {"copy", "next"}
        /\ "A" \in Keys(Obs(h))
        /\ Obs(h).pods["A"].expected_parts = 2
        /\ last.op = "add_edge"
        /\ last.h = tables[h].src

ReadOps == {"active_target_pod", "get_next_targets", "is_acyclic"}

\* C18: active_target_pod, get_next_targets and is_acyclic leave the table they are
\* called on unchanged (keys of pods, every descriptor, active_pod), also when
\* active_pod is unset or not a key of pods.
C18_ReadsLeaveTableUnchanged ==
    [][\A h \in Handles :
          (last'.op \in ReadOps /\ last'.h = h) => ObsNext(h) = Obs(h)]_vars

====
